---- MODULE Spec2Model ----
(***************************************************************************)
(* Payment agent with call recording, consent flow and a mock payment      *)
(* gateway (reference/solution.py).                                        *)
(*                                                                         *)
(* The agent exposes two tool handlers, handle_consent and                 *)
(* process_payment, which the conversational orchestrator may invoke in    *)
(* any order and any number of times during a call.  Each returns a        *)
(* SwaigFunctionResult: a spoken response plus a list of actions that the  *)
(* orchestrator applies to the call (session global data, recording, pay). *)
(* The server also exposes POST /payment, an async handler that suspends   *)
(* once on `await request.json()` and then answers from TEST_CARDS.        *)
(*                                                                         *)
(* Python dicts are functions with a finite domain of string keys;         *)
(* Python None is the value None below.  Strings are TLA+ strings, so      *)
(* slicing and rstrip are computed character by character.                 *)
(***************************************************************************)
EXTENDS Integers, Sequences, FiniteSets, TLC

VARIABLES
    test_cards,     \* the module-level TEST_CARDS dict as the process sees it
    global_data,    \* session-scoped key/value state of the call
    recording,      \* TRUE while the call is being recorded
    result,         \* the SwaigFunctionResult returned by the last tool call
    last_tool,      \* name of the last tool handler invoked ("" before any)
    last_args,      \* the args dict it was invoked with
    last_url,       \* what get_full_url() returned in that invocation
    inflight,       \* request id -> JSON body, handlers suspended on the await
    responded       \* request id -> [data, response], handlers that returned

vars == <<test_cards, global_data, recording, result, last_tool, last_args,
          last_url, inflight, responded>>

-----------------------------------------------------------------------------
(* Bounds and input sets *)

MaxRequests == 2

RequestIds == 1..MaxRequests

None == "None"

EmptyDict == [k \in {} |-> ""]

DictGet(d, k, default) == IF k \in DOMAIN d THEN d[k] ELSE default

DictUpdate(d, u) ==
    [k \in DOMAIN d \cup DOMAIN u |-> IF k \in DOMAIN u THEN u[k] ELSE d[k]]

TEST_CARDS ==
    [k \in {"4111111111111111", "4000000000000002", "5555555555554444"} |->
        IF k = "4000000000000002" THEN "declined" ELSE "success"]

\* Card numbers a request body may carry: the table's keys and one unknown.
CardNumbers == DOMAIN TEST_CARDS \cup {"4242424242424242"}

ChargeAmounts == {"49.99"}

\* JSON bodies of POST /payment; either field may be missing.
Bodies ==
    { [k \in ks |-> IF k = "payment_card_number" THEN c ELSE a] :
        ks \in SUBSET {"payment_card_number", "charge_amount"},
        c \in CardNumbers, a \in ChargeAmounts }

\* Values uuid.uuid4().hex may take (32 hex digits).
UuidHex == {"0123456789abcdef0123456789abcdef",
            "fedcba9876543210fedcba9876543210"}

ConsentValues == {"yes", "no", "maybe"}

ConsentArgs ==
    { [k \in ks |-> v] : ks \in SUBSET {"consent_given"}, v \in ConsentValues }

Amounts == {"49.99"}

PaymentArgs ==
    { [k \in ks |-> v] : ks \in SUBSET {"amount"}, v \in Amounts }

\* Values get_full_url() may return, with zero, one and two trailing slashes.
FullUrls == {"https://example.ngrok.io",
             "http://0.0.0.0:3000/",
             "https://proxy.example.com//"}

-----------------------------------------------------------------------------
(* Agent construction *)

params == [record_call |-> TRUE, record_format |-> "mp3", record_stereo |-> TRUE]

NoResult == [response |-> "", post_process |-> FALSE, action |-> <<>>]

-----------------------------------------------------------------------------
(* Tool handlers *)

ConsentMsg == "Thank you for your consent. How can I help you today?"

NoRecordingMsg ==
    "No problem, this call will not be recorded. How can I help you today?"

PaymentMsg ==
    "I'll collect your payment securely. Please enter your card number using your phone keypad."

AiResponse ==
    "The payment result is ${pay_result}. If successful, confirm the payment. If failed, apologize and offer to try another card."

SwaigFunctionResult(response, post_process) ==
    [response |-> response, post_process |-> post_process, action |-> <<>>]

update_global_data(r, data) ==
    [r EXCEPT !.action = Append(@, [name |-> "set_global_data", data |-> data])]

record_call(r, control_id, stereo, format) ==
    [r EXCEPT !.action = Append(@, [name |-> "record_call",
                                    control_id |-> control_id,
                                    stereo |-> stereo,
                                    format |-> format])]

max_attempts == 3

pay(r, payment_connector_url, charge_amount) ==
    [r EXCEPT !.action = Append(@, [name |-> "pay",
                                    payment_connector_url |-> payment_connector_url,
                                    charge_amount |-> charge_amount,
                                    input_method |-> "dtmf",
                                    security_code |-> TRUE,
                                    postal_code |-> TRUE,
                                    max_attempts |-> max_attempts,
                                    ai_response |-> AiResponse])]

\* A plausible slip: anything but an explicit "no" counts as consent.
handle_consent_not_no(args, raw_data) ==
    LET consent_given == DictGet(args, "consent_given", "") IN
    IF consent_given # "no"
    THEN record_call(
             update_global_data(SwaigFunctionResult(ConsentMsg, FALSE),
                                [recording_consent |-> TRUE]),
             "main", TRUE, "mp3")
    ELSE update_global_data(SwaigFunctionResult(NoRecordingMsg, FALSE),
                            [recording_consent |-> FALSE])

handle_consent(args, raw_data) ==
    LET consent_given == DictGet(args, "consent_given", "") IN
    IF consent_given = "yes"
    THEN record_call(
             update_global_data(SwaigFunctionResult(ConsentMsg, FALSE),
                                [recording_consent |-> TRUE]),
             "main", TRUE, "mp3")
    ELSE update_global_data(SwaigFunctionResult(NoRecordingMsg, FALSE),
                            [recording_consent |-> FALSE])

\* A plausible slip: only one trailing slash is removed.
rstrip_one(s, ch) ==
    IF Len(s) > 0 /\ SubSeq(s, Len(s), Len(s)) = ch
    THEN SubSeq(s, 1, Len(s) - 1)
    ELSE s

RECURSIVE rstrip(_, _)
rstrip(s, ch) ==
    IF Len(s) > 0 /\ SubSeq(s, Len(s), Len(s)) = ch
    THEN rstrip(SubSeq(s, 1, Len(s) - 1), ch)
    ELSE s

\* A plausible slip: the handler defaults the consent flag when it is unset.
process_payment_sets_consent(args, raw_data, full_url) ==
    LET amount      == DictGet(args, "amount", "0.00")
        base_url    == rstrip(full_url, "/")
        payment_url == base_url \o "/payment"
        r           == pay(SwaigFunctionResult(PaymentMsg, TRUE), payment_url, amount)
    IN IF "recording_consent" \in DOMAIN raw_data.global_data
       THEN r
       ELSE update_global_data(r, [recording_consent |-> FALSE])

\* A plausible variant: the handler refuses to collect before consent is resolved.
process_payment_gated(args, raw_data, full_url) ==
    LET amount      == DictGet(args, "amount", "0.00")
        base_url    == rstrip(full_url, "/")
        payment_url == base_url \o "/payment"
    IN IF "recording_consent" \in DOMAIN raw_data.global_data
       THEN pay(SwaigFunctionResult(PaymentMsg, TRUE), payment_url, amount)
       ELSE SwaigFunctionResult(PaymentMsg, TRUE)

process_payment(args, raw_data, full_url) ==
    LET amount      == DictGet(args, "amount", "0.00")
        base_url    == rstrip(full_url, "/")
        payment_url == base_url \o "/payment"
    IN pay(SwaigFunctionResult(PaymentMsg, TRUE), payment_url, amount)

-----------------------------------------------------------------------------
(* What the orchestrator does with the actions of a result *)

RECURSIVE ApplyGlobalData(_, _)
ApplyGlobalData(gd, actions) ==
    IF actions = <<>> THEN gd
    ELSE LET a == Head(actions) IN
         ApplyGlobalData(IF a.name = "set_global_data" THEN DictUpdate(gd, a.data) ELSE gd,
                         Tail(actions))

RECURSIVE ApplyRecording(_, _)
ApplyRecording(rec, actions) ==
    IF actions = <<>> THEN rec
    ELSE LET a == Head(actions) IN
         ApplyRecording(IF a.name = "record_call" THEN TRUE ELSE rec, Tail(actions))

RawData == [global_data |-> global_data]

HandleConsent ==
    \E args \in ConsentArgs :
        LET r == handle_consent(args, RawData) IN
        /\ result' = r
        /\ global_data' = ApplyGlobalData(global_data, r.action)
        /\ recording' = ApplyRecording(recording, r.action)
        /\ last_tool' = "handle_consent"
        /\ last_args' = args
        /\ UNCHANGED <<last_url, test_cards, inflight, responded>>

ProcessPayment ==
    \E args \in PaymentArgs, full_url \in FullUrls :
        LET r == process_payment(args, RawData, full_url) IN
        /\ result' = r
        /\ global_data' = ApplyGlobalData(global_data, r.action)
        /\ recording' = ApplyRecording(recording, r.action)
        /\ last_tool' = "process_payment"
        /\ last_args' = args
        /\ last_url' = full_url
        /\ UNCHANGED <<test_cards, inflight, responded>>

-----------------------------------------------------------------------------
(* Mock payment gateway *)

UuidHexLen == 12

\* A plausible slip: the comparison is inverted.
payment_gateway_inverted(data, cards, hex) ==
    LET card_number == DictGet(data, "payment_card_number", "")
        scenario    == DictGet(cards, card_number, "success")
    IN IF scenario # "success"
       THEN [charge_id |-> "ch_" \o SubSeq(hex, 1, UuidHexLen),
             error_code |-> None, error_message |-> None]
       ELSE [charge_id |-> None, error_code |-> "card_declined",
             error_message |-> "Your card was declined"]

\* A plausible slip: the table is never consulted.
payment_gateway_no_lookup(data, cards, hex) ==
    [charge_id |-> "ch_" \o SubSeq(hex, 1, UuidHexLen),
     error_code |-> None, error_message |-> None]

\* A plausible slip: unknown cards default to "declined".
payment_gateway_default_declined(data, cards, hex) ==
    LET card_number == DictGet(data, "payment_card_number", "")
        scenario    == DictGet(cards, card_number, "declined")
    IN IF scenario = "success"
       THEN [charge_id |-> "ch_" \o SubSeq(hex, 1, UuidHexLen),
             error_code |-> None, error_message |-> None]
       ELSE [charge_id |-> None, error_code |-> "card_declined",
             error_message |-> "Your card was declined"]

\* A plausible slip: a decline still carries a charge identifier.
payment_gateway_partial(data, cards, hex) ==
    LET card_number == DictGet(data, "payment_card_number", "")
        scenario    == DictGet(cards, card_number, "success")
    IN IF scenario = "success"
       THEN [charge_id |-> "ch_" \o SubSeq(hex, 1, UuidHexLen),
             error_code |-> None, error_message |-> None]
       ELSE [charge_id |-> "ch_" \o SubSeq(hex, 1, UuidHexLen),
             error_code |-> "card_declined",
             error_message |-> "Your card was declined"]

\* A plausible slip: a request without an amount is declined.
payment_gateway_amount(data, cards, hex) ==
    LET card_number   == DictGet(data, "payment_card_number", "")
        charge_amount == DictGet(data, "charge_amount", "0.00")
        scenario      == IF charge_amount = "0.00" THEN "declined"
                         ELSE DictGet(cards, card_number, "success")
    IN IF scenario = "success"
       THEN [charge_id |-> "ch_" \o SubSeq(hex, 1, UuidHexLen),
             error_code |-> None, error_message |-> None]
       ELSE [charge_id |-> None, error_code |-> "card_declined",
             error_message |-> "Your card was declined"]

payment_gateway(data, cards, hex) ==
    LET card_number == DictGet(data, "payment_card_number", "")
        scenario    == DictGet(cards, card_number, "success")
    IN IF scenario = "success"
       THEN [charge_id |-> "ch_" \o SubSeq(hex, 1, UuidHexLen),
             error_code |-> None, error_message |-> None]
       ELSE [charge_id |-> None, error_code |-> "card_declined",
             error_message |-> "Your card was declined"]

\* A request arrives; the handler starts and suspends on `await request.json()`.
\* Requests are numbered in order of arrival.
PostPayment ==
    \E id \in RequestIds, data \in Bodies :
        /\ id = Cardinality(DOMAIN inflight \cup DOMAIN responded) + 1
        /\ inflight' = [i \in DOMAIN inflight \cup {id} |->
                           IF i = id THEN data ELSE inflight[i]]
        /\ UNCHANGED <<test_cards, global_data, recording, result, last_tool,
                       last_args, last_url, responded>>

\* The body is available; the handler runs to its return without suspending.
PaymentGateway ==
    \E id \in DOMAIN inflight, hex \in UuidHex :
        LET data == inflight[id] IN
        /\ responded' = [i \in DOMAIN responded \cup {id} |->
                            IF i = id
                            THEN [data |-> data,
                                  response |-> payment_gateway(data, test_cards, hex)]
                            ELSE responded[i]]
        /\ inflight' = [i \in DOMAIN inflight \ {id} |-> inflight[i]]
        /\ UNCHANGED <<test_cards, global_data, recording, result, last_tool,
                       last_args, last_url>>

-----------------------------------------------------------------------------

Init ==
    /\ test_cards = TEST_CARDS
    /\ global_data = [k \in {} |-> TRUE]
    /\ recording = params.record_call
    /\ result = NoResult
    /\ last_tool = ""
    /\ last_args = EmptyDict
    /\ last_url = ""
    /\ inflight = [i \in {} |-> EmptyDict]
    /\ responded = [i \in {} |-> [data |-> EmptyDict, response |-> EmptyDict]]

Next ==
    \/ HandleConsent
    \/ ProcessPayment
    \/ PostPayment
    \/ PaymentGateway

Spec == Init /\ [][Next]_vars

-----------------------------------------------------------------------------
(* Properties *)

SuccessShape(r) ==
    r.charge_id # None /\ r.error_code = None /\ r.error_message = None

DeclineShape(r) ==
    r.charge_id = None /\ r.error_code # None /\ r.error_message # None

HasCard(d, c) == "payment_card_number" \in DOMAIN d /\ d["payment_card_number"] = c

Outcome(r) == IF r.charge_id # None THEN "success" ELSE "declined"

ActionsNamed(r, n) == { i \in 1..Len(r.action) : r.action[i].name = n }

ConsentResolved == "recording_consent" \in DOMAIN global_data

\* C1: every response to a request whose card number TEST_CARDS maps to
\* "success" has a non-null charge_id and null error_code and error_message,
\* whatever the charge amount.
C1_SuccessCards ==
    \A i \in DOMAIN responded :
        \A c \in {"4111111111111111", "5555555555554444"} :
            HasCard(responded[i].data, c) =>
                /\ TEST_CARDS[c] = "success"
                /\ responded[i].response.charge_id # None
                /\ responded[i].response.error_code = None
                /\ responded[i].response.error_message = None

C1_Witness ==
    \E i, j \in DOMAIN responded :
        /\ HasCard(responded[i].data, "4111111111111111")
        /\ HasCard(responded[j].data, "5555555555554444")
        /\ "charge_amount" \notin DOMAIN responded[j].data
        /\ responded[i].response.charge_id = "ch_0123456789ab"

\* C2: every response to a request for card 4000000000000002 has a null
\* charge_id, error_code "card_declined" and a non-null error_message, whatever
\* the amount and whatever requests came before.
C2_DeclinedCard ==
    \A i \in DOMAIN responded :
        HasCard(responded[i].data, "4000000000000002") =>
            /\ responded[i].response.charge_id = None
            /\ responded[i].response.error_code = "card_declined"
            /\ responded[i].response.error_message # None

C2_Witness ==
    \E i, j \in DOMAIN responded :
        /\ i # j
        /\ HasCard(responded[j].data, "4000000000000002")
        /\ responded[j].response.error_code = "card_declined"

\* C3: every response to a request whose card number is not a key of
\* TEST_CARDS, or whose body has no payment_card_number at all, is a success
\* response.
C3_UnknownCards ==
    \A i \in DOMAIN responded :
        LET d == responded[i].data IN
        ("payment_card_number" \notin DOMAIN d
            \/ d["payment_card_number"] \notin DOMAIN TEST_CARDS)
        => SuccessShape(responded[i].response)

C3_Witness ==
    \E i, j \in DOMAIN responded :
        /\ "payment_card_number" \notin DOMAIN responded[i].data
        /\ HasCard(responded[j].data, "4242424242424242")
        /\ SuccessShape(responded[i].response)
        /\ SuccessShape(responded[j].response)

\* C4: after handle_consent with consent_given = "yes" the consent flag is
\* true and the result carries a record_call action (control id "main",
\* stereo); after handle_consent with any other value, or none, the flag is
\* false and the result carries no record_call action.
C4_Consent ==
    last_tool = "handle_consent" =>
        IF "consent_given" \in DOMAIN last_args /\ last_args["consent_given"] = "yes"
        THEN /\ ConsentResolved
             /\ global_data["recording_consent"] = TRUE
             /\ \E i \in ActionsNamed(result, "record_call") :
                    /\ result.action[i].control_id = "main"
                    /\ result.action[i].stereo = TRUE
        ELSE /\ ConsentResolved
             /\ global_data["recording_consent"] = FALSE
             /\ ActionsNamed(result, "record_call") = {}

C4_Witness ==
    /\ last_tool = "handle_consent"
    /\ last_args = [consent_given |-> "yes"]
    /\ global_data["recording_consent"] = TRUE
    /\ ActionsNamed(result, "record_call") # {}

\* The base URL with all trailing slashes removed, stated without rstrip:
\* a prefix of u that does not end in a slash and is followed only by slashes.
IsStripped(u, b) ==
    \E k \in 0..Len(u) :
        /\ b = SubSeq(u, 1, k)
        /\ k = 0 \/ SubSeq(u, k, k) # "/"
        /\ \A i \in (k + 1)..Len(u) : SubSeq(u, i, i) = "/"

\* C5: the result of process_payment contains exactly one pay action, with
\* max_attempts 3, security code and postal code required, DTMF input,
\* charge_amount equal to the amount argument ("0.00" when absent) and
\* payment_connector_url equal to the server's base URL without its trailing
\* slashes followed by "/payment".
C5_PayDirective ==
    last_tool = "process_payment" =>
        /\ Cardinality(ActionsNamed(result, "pay")) = 1
        /\ \A i \in ActionsNamed(result, "pay") :
            LET p == result.action[i] IN
            /\ p.max_attempts = 3
            /\ p.security_code = TRUE
            /\ p.postal_code = TRUE
            /\ p.input_method = "dtmf"
            /\ p.charge_amount = (IF "amount" \in DOMAIN last_args
                                  THEN last_args["amount"] ELSE "0.00")
            /\ \E k \in 0..Len(last_url) :
                /\ IsStripped(last_url, SubSeq(last_url, 1, k))
                /\ p.payment_connector_url = SubSeq(last_url, 1, k) \o "/payment"

C5_Witness ==
    /\ last_tool = "process_payment"
    /\ last_url = "https://proxy.example.com//"
    /\ last_args = EmptyDict
    /\ \E i \in ActionsNamed(result, "pay") :
        /\ result.action[i].payment_connector_url = "https://proxy.example.com/payment"
        /\ result.action[i].charge_amount = "0.00"

\* C6: every response is in exactly one of the two shapes: charge_id with
\* both error fields null, or null charge_id with both error fields set.
C6_ResponseShape ==
    \A i \in DOMAIN responded :
        LET r == responded[i].response IN
        /\ SuccessShape(r) \/ DeclineShape(r)
        /\ ~(SuccessShape(r) /\ DeclineShape(r))
        /\ ~(r.charge_id # None /\ (r.error_code # None \/ r.error_message # None))
        /\ ~(r.charge_id = None /\ r.error_code = None /\ r.error_message = None)

C6_Witness ==
    \E i, j \in DOMAIN responded :
        /\ SuccessShape(responded[i].response)
        /\ DeclineShape(responded[j].response)

\* C7 as stated: once the consent flag has been set, no later step changes
\* its value.
C7_SetOnce ==
    [][ConsentResolved => global_data' = global_data]_vars

\* C7 as amended: the consent flag is written by handle_consent only, and
\* every write sets it to whether that invocation's consent_given is "yes";
\* a later handle_consent may overwrite an earlier value.
C7_OnlyConsentHandlerWrites ==
    [][global_data' # global_data =>
        /\ last_tool' = "handle_consent"
        /\ global_data' = [recording_consent |->
                              DictGet(last_args', "consent_given", "") = "yes"]]_vars

C7_Witness ==
    /\ last_tool = "process_payment"
    /\ ConsentResolved
    /\ global_data["recording_consent"] = FALSE
    /\ DOMAIN responded # {}

\* C8 as stated: no pay directive is issued while consent is unresolved.
C8_PayOnlyAfterConsent ==
    ActionsNamed(result, "pay") # {} => ConsentResolved

\* C8 as amended: every invocation of process_payment issues one pay
\* directive, whether or not the consent flag has been resolved, and leaves
\* the flag as it was.
C8_PayUngated ==
    [][(/\ last_tool' = "process_payment"
        /\ <<last_tool, last_args, last_url>>' # <<last_tool, last_args, last_url>>)
       => /\ Cardinality(ActionsNamed(result', "pay")) = 1
          /\ global_data' = global_data]_vars

C8_Witness ==
    /\ last_tool = "process_payment"
    /\ ~ConsentResolved
    /\ Cardinality(ActionsNamed(result, "pay")) = 1

\* C9: under every interleaving of requests the test-card table keeps its
\* initial contents, and two requests with the same card number get the same
\* outcome whatever their amounts, their order and the requests in flight.
C9_Stateless ==
    /\ test_cards = TEST_CARDS
    /\ \A i, j \in DOMAIN responded :
        DictGet(responded[i].data, "payment_card_number", "")
            = DictGet(responded[j].data, "payment_card_number", "")
        => Outcome(responded[i].response) = Outcome(responded[j].response)

C9_Witness ==
    \E i, j \in DOMAIN responded :
        /\ i # j
        /\ HasCard(responded[i].data, "4000000000000002")
        /\ HasCard(responded[j].data, "4000000000000002")
        /\ DOMAIN responded[i].data # DOMAIN responded[j].data
        /\ Outcome(responded[i].response) = "declined"
        /\ Outcome(responded[j].response) = "declined"

\* C10: once handle_consent has answered that the call will not be recorded,
\* the call is not being recorded.
C10_NotRecorded ==
    (last_tool = "handle_consent" /\ result.response = NoRecordingMsg) => ~recording

====
